---- MODULE Spec2Model ----
(***************************************************************************)
(* arrcat: the concat_arrays! macro.  One invocation is followed from the  *)
(* macro call through the token muncher (__concat_arrays_inner), the       *)
(* resolution of the per-argument lengths, the type check of the           *)
(* __Concater aggregate, and the evaluation of internals::concat_arrays    *)
(* (size assertion, then the union transmute).                             *)
(***************************************************************************)
EXTENDS Integers, Sequences, FiniteSets, TLC

\* ------------------------------------------------------------------------
\* Bounds of the model
\* ------------------------------------------------------------------------
MaxArgs == 2
MaxLen == 2
MaxElemSize == 2

Lens == 0..MaxLen
ElemSizes == 1..MaxElemSize

\* ------------------------------------------------------------------------
\* Arguments ($array_arg $(: $argument_type)?)
\* ------------------------------------------------------------------------
\* kind: "list"   [e1, ..., en]  (tc: written with a trailing comma)
\*       "repeat" [v; n]
\*       "delim"  a ()/{}-delimited expression of array type
\*       "ident"  a single-identifier path (a local variable or a constant)
\*       "path"   a path of several segments (a constant item)
\* n:    the number of elements of the array the expression denotes
\* ann:  "none" | "explicit" [T; decl] | "infer" [T; _] | "opaque" a named
\*       array type whose length is decl
\* cst:  the expression can be used inside a const block and its array type
\*       is fully inferred there (the Usize probe can unify its length)
\* ety:  the element type of the expression's array value
\* id:   the position of the argument in the invocation (0: the `[]` that
\*       __concat_arrays_preprocess_inner inserts)
Literal(a) == a.kind \in {"list", "repeat"}

ElemTypes == {"T", "U"}

\* The shapes of an argument.  A declared length is the actual one, one
\* less or one more.
Shapes ==
    { a \in [kind : {"list", "repeat", "delim", "ident", "path"},
             n : Lens, tc : BOOLEAN,
             ann : {"none", "explicit", "infer", "opaque"},
             decl : 0..(MaxLen + 1), cst : BOOLEAN, ety : ElemTypes] :
        /\ a.tc => (a.kind = "list" /\ a.n >= 1)
        /\ IF a.ann \in {"none", "infer"} THEN a.decl = 0
           ELSE a.decl \in {a.n - 1, a.n, a.n + 1}
        /\ Literal(a) => a.cst }

Arg(i, a) ==
    [id |-> i, kind |-> a.kind, n |-> a.n, tc |-> a.tc, ann |-> a.ann,
     decl |-> a.decl, cst |-> a.cst, ety |-> a.ety]

\* The plainest argument: an array literal [e1, ..., en] of element type T
\* with no type annotation.
ListLiteral(i, n) ==
    [id |-> i, kind |-> "list", n |-> n, tc |-> FALSE, ann |-> "none",
     decl |-> 0, cst |-> TRUE, ety |-> "T"]

\* A list of k arguments: the argument of shape a at position p, the others
\* plain list literals of the lengths ns.
ArgList(k, p, a, ns) ==
    [i \in 1..k |-> IF i = p THEN Arg(i, a) ELSE ListLiteral(i, ns[i])]

\* An invocation: the optional `length_type = L;` directive, the arguments
\* and the optional trailing comma.
Invocation(lt, args, tr) ==
    [length_type |-> lt, args |-> args, trailing |-> tr]

\* The array value an argument expression evaluates to: element j of
\* argument i is the object <<i, j>>.
ArrayValue(a) == [j \in 1..a.n |-> <<a.id, j>>]

Comma == [kind |-> ","]

\* The token list of the argument list: the arguments separated by commas.
RECURSIVE Tokens(_, _)
Tokens(args, trailing) ==
    IF args = <<>> THEN <<>>
    ELSE IF Len(args) = 1
         THEN IF trailing THEN <<args[1], Comma>> ELSE <<args[1]>>
         ELSE <<args[1], Comma>> \o Tokens(Tail(args), trailing)

\* ------------------------------------------------------------------------
\* concat_arrays! and __concat_arrays_preprocess_inner!
\* ------------------------------------------------------------------------
\* The macro without its first rule, `() => ([])`.
concat_arrays_rule_NoEmpty(v) == IF v.length_type THEN 2 ELSE 3

\* Which rule of concat_arrays! the invocation matches (the first that does).
concat_arrays_rule(v) ==
    IF v.args = <<>> /\ ~v.length_type THEN 1
    ELSE IF v.length_type THEN 2
    ELSE 3

\* `[]`: the array literal that __concat_arrays_preprocess_inner! passes on
\* for an empty argument list.
EmptyLiteral == ListLiteral(0, 0)

preprocess_args(args) == IF args = <<>> THEN <<EmptyLiteral>> ELSE args

\* ------------------------------------------------------------------------
\* __concat_arrays_inner!: the token muncher
\* ------------------------------------------------------------------------
\* The comma after an argument is not optional.
SepNeedsComma(r) == Len(r) >= 2 /\ r[2] = Comma

\* `$(, $($rem:tt)*)?` after an argument: the end of the input, or a comma
\* and the rest.
SepOK(r) == Len(r) = 1 \/ r[2] = Comma
Rest(r) == IF Len(r) = 1 THEN <<>> ELSE SubSeq(r, 3, Len(r))

BracketAnn(a) == a.ann \in {"explicit", "infer"}

\* The terminal rule's `($(,)?)`: nothing is left, or one comma.
TerminalMatches(r) == r = <<>> \/ r = <<Comma>>

\* Whether rule k of __concat_arrays_inner! matches the remaining tokens r
\* (rule 0 is the terminal rule, the first one of the macro).
RuleMatches(k, r) ==
    CASE k = 0 -> TerminalMatches(r)
      [] k = 1 -> /\ r # <<>> /\ Literal(r[1]) /\ SepOK(r)
                  /\ (r[1].ann = "none" \/ BracketAnn(r[1]))
      [] k = 2 -> r # <<>> /\ Literal(r[1]) /\ SepOK(r)
      [] k = 3 -> /\ r # <<>> /\ r[1].kind \in {"delim", "ident"} /\ SepOK(r)
                  /\ (r[1].ann = "none" \/ BracketAnn(r[1]))
      [] k = 4 -> r # <<>> /\ r[1].kind \in {"delim", "ident"} /\ SepOK(r)
      [] k = 5 -> /\ r # <<>> /\ r[1].kind \in {"ident", "path"}
                  /\ (Len(r) = 1 \/ r[1].ann # "none")
      [] k = 6 -> /\ r # <<>> /\ r[1].kind \in {"ident", "path"}
                  /\ SepOK(r) /\ r[1].ann = "none"
      [] OTHER -> FALSE

\* macro_rules! takes the first rule that matches (7: no rule matches).
FirstRule(r) ==
    IF RuleMatches(0, r) THEN 0
    ELSE IF RuleMatches(1, r) THEN 1
    ELSE IF RuleMatches(2, r) THEN 2
    ELSE IF RuleMatches(3, r) THEN 3
    ELSE IF RuleMatches(4, r) THEN 4
    ELSE IF RuleMatches(5, r) THEN 5
    ELSE IF RuleMatches(6, r) THEN 6
    ELSE 7

\* The entry ($expr, ($elem), ($len), ($type)) that rules 1-4 append to
\* the processed arguments.  len is the length macro call left unexpanded:
\* its name and the tokens of its last argument.
Entry(k, a) ==
    CASE k = 1 ->
           [expr |-> a, elem |-> IF a.ann = "none" THEN "" ELSE "elem_ty",
            len |-> [macro |-> "__get_array_length", arg |-> ""],
            type |-> a.ann]
      [] k = 2 ->
           [expr |-> a, elem |-> "GetTypeParam",
            len |-> [macro |-> "__get_array_length", arg |-> ""],
            type |-> a.ann]
      [] k = 3 ->
           [expr |-> a, elem |-> IF a.ann = "none" THEN "" ELSE "elem_ty",
            len |-> [macro |-> "__length_or_infer",
                     arg |-> CASE a.ann = "none" -> ""
                               [] a.ann = "infer" -> "const _"
                               [] OTHER -> "const N"],
            type |-> a.ann]
      [] k = 4 ->
           [expr |-> a, elem |-> "GetTypeParam",
            len |-> [macro |-> "__length_or_infer", arg |-> "type"],
            type |-> a.ann]

\* Rules 5 and 6 put the path in parentheses: it becomes one token tree.
Parenthesized(a) == [a EXCEPT !.kind = "delim"]

PrevAfter(k, p, r) ==
    IF k \in 1..4 THEN Append(p, Entry(k, r[1])) ELSE p

\* Rules 5 and 6 keep the path and lose its annotation.
RemAfterLosesAnnotation(k, p, r) ==
    IF k \in 1..4 THEN Rest(r)
    ELSE IF k \in 5..6
    THEN <<[Parenthesized(r[1]) EXCEPT !.ann = "none", !.decl = 0]>>
         \o Tail(r)
    ELSE r

RemAfter(k, p, r) ==
    IF k \in 1..4 THEN Rest(r)
    ELSE IF k \in 5..6 THEN <<Parenthesized(r[1])>> \o Tail(r)
    ELSE r

\* The processed arguments once the terminal rule is reached.
RECURSIVE Munch(_, _)
Munch(p, r) ==
    LET k == FirstRule(r) IN
    IF k \notin 1..6 THEN p
    ELSE Munch(PrevAfter(k, p, r), RemAfter(k, p, r))

\* Whether the muncher reaches the terminal rule.
RECURSIVE MunchOK(_, _)
MunchOK(p, r) ==
    LET k == FirstRule(r) IN
    IF k \notin 1..6 THEN k = 0
    ELSE MunchOK(PrevAfter(k, p, r), RemAfter(k, p, r))

\* ------------------------------------------------------------------------
\* The length macros and the type ascription
\* ------------------------------------------------------------------------
\* __as_unit! replaces each element expression of a list literal by ().
AsUnits(a) == [j \in 1..a.n |-> "()"]

\* The trailing comma of a list literal is counted as an element.
get_array_length_CountsComma(a) ==
    IF a.kind = "repeat" THEN a.n
    ELSE IF a.n = 0 THEN 0
    ELSE Len(AsUnits(a)) + (IF a.tc THEN 1 ELSE 0)

\* __get_array_length! on the contents of an array literal.
get_array_length(a) ==
    IF a.kind = "repeat" THEN a.n
    ELSE IF a.n = 0 THEN 0
    ELSE Len(AsUnits(a))

\* The call of infer_mda is not guarded: the probe runs.
ProbeUnguarded == TRUE

\* The branch `if false { len.infer_mda(..) }` of the probe is not taken.
ProbeExecuted == FALSE

IsProbe(e) ==
    e.len.macro = "__length_or_infer" /\ e.len.arg \in {"", "const _"}

\* __length_or_infer!: the Usize probe unifies N with the length of the
\* expression's array type; `const N` is N; `type` is ArrayLength::LENGTH.
length_or_infer(e) ==
    CASE e.len.arg \in {"", "const _"} -> e.expr.n
      [] e.len.arg = "const N" -> e.expr.decl
      [] OTHER -> e.expr.decl

\* The probe needs the expression to be usable in the const block of the
\* length, with an array type it can unify.
LenResolves(e) == IsProbe(e) => e.expr.cst

ResolveLen(e) ==
    IF e.len.macro = "__get_array_length" THEN get_array_length(e.expr)
    ELSE length_or_infer(e)

\* How many times resolving the length evaluates the argument expression
\* (or, for a list literal, its element expressions).
LengthEvals(e) ==
    IF IsProbe(e) /\ ProbeExecuted THEN 1 ELSE 0

\* __type_ascription!: the length of the array type the ascribed expression
\* has, and whether the ascription type-checks.  Identity::<$ty>{inner: $e}
\* needs $e to have the type $ty; ArrayAndGhost infers LEN from $e.
AscribedLen(e) ==
    IF e.type \in {"explicit", "opaque"} THEN e.expr.decl ELSE e.expr.n

\* The annotated type is not checked against the expression.
AscriptionUnchecked(e) == TRUE

\* An expression may be ascribed an array type longer than its own.
AscriptionAllowsLonger(e) ==
    e.type \in {"explicit", "opaque"} => e.expr.decl >= e.expr.n

AscriptionOK(e) ==
    e.type \in {"explicit", "opaque"} => e.expr.decl = e.expr.n

\* The accumulator starts from 1 instead of 0.
RECURSIVE SumLensFromOne(_)
SumLensFromOne(ls) ==
    IF ls = <<>> THEN 1 ELSE ls[1] + SumLensFromOne(Tail(ls))

\* `let mut len = 0; $( len += $len; )* len`
RECURSIVE SumLens(_)
SumLens(ls) == IF ls = <<>> THEN 0 ELSE ls[1] + SumLens(Tail(ls))

ResolvedLens(p) == [i \in 1..Len(p) |-> ResolveLen(p[i])]

\* L::LEN is declared from the initial value of the accumulator.
DeclaredLENBeforeSum(cfg, length) == IF cfg = "L" THEN <<0>> ELSE <<>>

\* __declare_length_type_and_pass!: with a length type, L::LEN is defined
\* as the length and the length is read back from it.
DeclaredLEN(cfg, length) == IF cfg = "L" THEN <<length>> ELSE <<>>

\* The fields of the aggregate carry no length.
LengthsUnchecked(p, ls) == TRUE

\* __Concater(..): field i has the type [__PrivT; $len_i], so every ascribed
\* expression must have that length and all must share the element type.
LengthsOK(p, ls) ==
    \A i \in 1..Len(p) : AscriptionOK(p[i]) /\ AscribedLen(p[i]) = ls[i]

\* The element type of an argument: `[]` without annotation has an element
\* type that inference is free to choose ("_").
ElemTypeOf(a) ==
    IF a.kind = "list" /\ a.n = 0 /\ a.ann = "none" THEN "_" ELSE a.ety

Unifies(x, y) == x = y \/ x = "_" \/ y = "_"

ElemsOK(p) ==
    \A i, j \in 1..Len(p) :
        Unifies(ElemTypeOf(p[i].expr), ElemTypeOf(p[j].expr))

\* ------------------------------------------------------------------------
\* The aggregate and internals::concat_arrays
\* ------------------------------------------------------------------------
\* The object e of size s is the bytes <<e, 1>> .. <<e, s>>.
ObjBytes(e, s) == [b \in 1..s |-> <<e, b>>]

\* The elements of an array are laid out last to first.
RECURSIVE ArrayBytesReversed(_, _)
ArrayBytesReversed(arr, s) ==
    IF arr = <<>> THEN <<>>
    ELSE ArrayBytesReversed(Tail(arr), s) \o ObjBytes(arr[1], s)

RECURSIVE ArrayBytes(_, _)
ArrayBytes(arr, s) ==
    IF arr = <<>> THEN <<>>
    ELSE ObjBytes(arr[1], s) \o ArrayBytes(Tail(arr), s)

\* Without repr(C) the fields may be reordered: here, last to first.
RECURSIVE LayoutReordered(_, _)
LayoutReordered(fields, s) ==
    IF fields = <<>> THEN <<>>
    ELSE LayoutReordered(Tail(fields), s) \o ArrayBytes(fields[1], s)

\* #[repr(C, packed)] struct __Concater: the fields in declaration order,
\* with no padding.
RECURSIVE Layout(_, _)
Layout(fields, s) ==
    IF fields = <<>> THEN <<>>
    ELSE ArrayBytes(fields[1], s) \o Layout(Tail(fields), s)

Fields(p) == [i \in 1..Len(p) |-> ArrayValue(p[i].expr)]

\* The aggregate only has to be large enough for the target array.
SizeAtLeast(bytes, s, concatLen) == Len(bytes) >= s * concatLen

\* size_of::<From_>() == size_of::<[T; CONCAT_LEN]>()
SizeAssertion(bytes, s, concatLen) == Len(bytes) = s * concatLen

\* The object whose bytes bs are (<<0, 0>>: not the bytes of one object).
Decode(bs) ==
    IF bs # <<>> /\ bs = ObjBytes(bs[1][1], Len(bs)) THEN bs[1][1]
    ELSE <<0, 0>>

\* const_transmute!: the bytes of the aggregate read as [T; CONCAT_LEN].
Transmuted(bytes, s, concatLen) ==
    [k \in 1..concatLen |-> Decode(SubSeq(bytes, (k - 1) * s + 1, k * s))]

\* Without ManuallyDrop the aggregate is dropped as __Concater after the
\* bytes were read: every element is dropped through it.
SourceDroppedAsConcater(bytes) == { bytes[b][1] : b \in 1..Len(bytes) }

\* The aggregate is moved into ManuallyDrop: none of its elements is
\* dropped through it.
SourceDropped(bytes) == {}

\* ------------------------------------------------------------------------
\* The whole expansion of one invocation
\* ------------------------------------------------------------------------
\* The tokens handed to __concat_arrays_inner!.
InnerInput(v) ==
    IF concat_arrays_rule(v) = 2
    THEN preprocess_args(Tokens(v.args, v.trailing))
    ELSE Tokens(v.args, v.trailing)

Entries(v) == Munch(<<>>, InnerInput(v))

\* The invocation compiles.
Accepted(v) ==
    LET es == Entries(v) IN
    \/ concat_arrays_rule(v) = 1
    \/ /\ MunchOK(<<>>, InnerInput(v))
       /\ \A i \in 1..Len(es) : LenResolves(es[i])
       /\ LengthsOK(es, ResolvedLens(es))
       /\ ElemsOK(es)

\* The array an accepted invocation returns, for elements of size s.
OutputOf(v, s) ==
    LET es == Entries(v) IN
    IF concat_arrays_rule(v) = 1 THEN <<>>
    ELSE Transmuted(Layout(Fields(es), s), s, SumLens(ResolvedLens(es)))

\* ------------------------------------------------------------------------
\* State
\* ------------------------------------------------------------------------
VARIABLES
    inv,         \* the invocation
    pc,          \* where the expansion / evaluation stands
    config,      \* config(length_type(..)): "L" or ""
    prev,        \* the processed arguments of __concat_arrays_inner!
    rem,         \* the tokens not yet processed
    concater,    \* struct __Concater and the concat_arrays call are emitted
    lens,        \* the resolved per-argument lengths
    CONCAT_LEN,  \* the const argument of concat_arrays
    LEN,         \* L::LEN: <<>> while not defined
    esize,       \* size_of::<T>()
    ctx,         \* "const" or "runtime": where the expansion is evaluated
    evals,       \* how many times each argument expression was evaluated
    this,        \* the bytes of the aggregate
    out,         \* the returned array
    dropped,     \* the objects dropped through the aggregate
    err          \* why the invocation was rejected

vars == <<inv, pc, config, prev, rem, concater, lens, CONCAT_LEN, LEN, esize,
          ctx, evals, this, out, dropped, err>>

front == <<config, prev, rem, concater>>
middle == <<lens, CONCAT_LEN, LEN, esize>>
back == <<ctx, evals, this, out, dropped>>

Init ==
    /\ \E lt \in BOOLEAN, k \in 0..MaxArgs :
         \/ k = 0 /\ inv = Invocation(lt, <<>>, FALSE)
         \/ \E tr \in BOOLEAN, p \in 1..k, a \in Shapes, ns \in [1..k -> Lens] :
               /\ ns[p] = 0
               /\ inv = Invocation(lt, ArgList(k, p, a, ns), tr)
    /\ pc = "call"
    /\ config = ""
    /\ prev = <<>>
    /\ rem = <<>>
    /\ concater = FALSE
    /\ lens = <<>>
    /\ CONCAT_LEN = 0
    /\ LEN = <<>>
    /\ esize = 0
    /\ ctx = ""
    /\ evals = <<>>
    /\ this = <<>>
    /\ out = <<>>
    /\ dropped = {}
    /\ err = ""

\* concat_arrays!() => ([])
CallEmpty ==
    /\ pc = "call" /\ concat_arrays_rule(inv) = 1
    /\ pc' = "done"
    /\ out' = <<>>
    /\ UNCHANGED <<inv, front, middle, ctx, evals, this, dropped, err>>

\* concat_arrays!(length_type = L; ..)
CallLengthType ==
    /\ pc = "call" /\ concat_arrays_rule(inv) = 2
    /\ pc' = "preprocess"
    /\ config' = "L"
    /\ rem' = Tokens(inv.args, inv.trailing)
    /\ UNCHANGED <<inv, prev, concater, middle, back, err>>

\* concat_arrays!(..)
CallArgs ==
    /\ pc = "call" /\ concat_arrays_rule(inv) = 3
    /\ pc' = "inner"
    /\ config' = ""
    /\ rem' = Tokens(inv.args, inv.trailing)
    /\ UNCHANGED <<inv, prev, concater, middle, back, err>>

\* __concat_arrays_preprocess_inner!
Preprocess ==
    /\ pc = "preprocess"
    /\ pc' = "inner"
    /\ rem' = preprocess_args(rem)
    /\ UNCHANGED <<inv, config, prev, concater, middle, back, err>>

\* One rule of the muncher rewrites the processed arguments and the rest.
Munched(k) ==
    /\ prev' = PrevAfter(k, prev, rem)
    /\ rem' = RemAfter(k, prev, rem)
    /\ UNCHANGED <<inv, pc, config, concater, middle, back, err>>

\* Rule 1: an array literal, with no annotation or `: [T; N]` / `: [T; _]`.
LiteralBracket ==
    /\ pc = "inner" /\ FirstRule(rem) = 1
    /\ Munched(1)

\* Rule 2: an array literal with `: $type`.
LiteralType ==
    /\ pc = "inner" /\ FirstRule(rem) = 2
    /\ Munched(2)

\* Rule 3: a token tree, with no annotation or `: [T; N]` / `: [T; _]`.
ExprBracket ==
    /\ pc = "inner" /\ FirstRule(rem) = 3
    /\ Munched(3)

\* Rule 4: a token tree with `: $type`.
ExprType ==
    /\ pc = "inner" /\ FirstRule(rem) = 4
    /\ Munched(4)

\* Rule 5: a path, last or annotated, is put in parentheses.
PathColon ==
    /\ pc = "inner" /\ FirstRule(rem) = 5
    /\ Munched(5)

\* Rule 6: a path followed by a comma is put in parentheses.
PathComma ==
    /\ pc = "inner" /\ FirstRule(rem) = 6
    /\ Munched(6)

\* The terminal rule: the expansion is emitted.
Terminal ==
    /\ pc = "inner" /\ FirstRule(rem) = 0
    /\ pc' = "expanded"
    /\ concater' = TRUE
    /\ UNCHANGED <<inv, config, prev, rem, middle, back, err>>

\* The length expressions are expanded and evaluated (they are array
\* lengths of the field types and the const argument).
ResolveLengths ==
    /\ pc = "expanded"
    /\ IF \A i \in 1..Len(prev) : LenResolves(prev[i])
       THEN /\ pc' = "resolved"
            /\ lens' = ResolvedLens(prev)
            /\ CONCAT_LEN' = SumLens(ResolvedLens(prev))
            /\ LEN' = DeclaredLEN(config, SumLens(ResolvedLens(prev)))
            /\ evals' = [i \in 1..Len(prev) |-> LengthEvals(prev[i])]
            /\ err' = err
       ELSE /\ pc' = "rejected"
            /\ err' = "unresolved_length"
            /\ UNCHANGED <<lens, CONCAT_LEN, LEN, evals>>
    /\ UNCHANGED <<inv, front, esize, ctx, this, out, dropped>>

\* The aggregate construction is type-checked; T is fixed.
TypeCheck ==
    /\ pc = "resolved"
    /\ IF ~LengthsOK(prev, lens)
       THEN pc' = "rejected" /\ err' = "length_mismatch" /\ esize' = esize
       ELSE IF ~ElemsOK(prev)
       THEN pc' = "rejected" /\ err' = "elem_mismatch" /\ esize' = esize
       ELSE pc' = "checked" /\ err' = err /\ esize' \in ElemSizes
    /\ UNCHANGED <<inv, front, lens, CONCAT_LEN, LEN, back>>

\* __Concater(..) is constructed: each argument expression is evaluated.
Construct ==
    /\ pc = "checked"
    /\ pc' = "constructed"
    /\ ctx' \in {"const", "runtime"}
    /\ evals' = [i \in 1..Len(prev) |-> evals[i] + 1]
    /\ this' = Layout(Fields(prev), esize)
    /\ UNCHANGED <<inv, front, middle, out, dropped, err>>

\* concat_arrays: assert!(size_of::<From_>() == size_of::<[T; CONCAT_LEN]>())
AssertSize ==
    /\ pc = "constructed"
    /\ pc' = IF SizeAssertion(this, esize, CONCAT_LEN)
             THEN "asserted" ELSE "panicked"
    /\ UNCHANGED <<inv, front, middle, back, err>>

\* concat_arrays: const_transmute!
Transmute ==
    /\ pc = "asserted"
    /\ pc' = "done"
    /\ out' = Transmuted(this, esize, CONCAT_LEN)
    /\ dropped' = SourceDropped(this)
    /\ UNCHANGED <<inv, front, middle, ctx, evals, this, err>>

Next ==
    \/ CallEmpty \/ CallLengthType \/ CallArgs \/ Preprocess
    \/ LiteralBracket \/ LiteralType \/ ExprBracket \/ ExprType
    \/ PathColon \/ PathComma \/ Terminal
    \/ ResolveLengths \/ TypeCheck \/ Construct \/ AssertSize \/ Transmute

Spec == Init /\ [][Next]_vars

\* ------------------------------------------------------------------------
\* internals::concat_arrays called on its own
\* ------------------------------------------------------------------------
\* concat_arrays is a pub unsafe fn generic in From_, T and CONCAT_LEN: a
\* caller chooses the aggregate (the lengths of its array fields), the
\* element type (its size, 0 for a zero-sized type) and CONCAT_LEN freely.
TypeSizes == 0..MaxElemSize
MaxConcatLen == MaxArgs * MaxLen + 1

\* The aggregate with array fields of the lengths ns.
FieldsOfLens(ns) == [i \in 1..Len(ns) |-> [j \in 1..ns[i] |-> <<i, j>>]]

InitDirect ==
    /\ inv = Invocation(FALSE, <<>>, FALSE)
    /\ pc = "caller"
    /\ config = ""
    /\ prev = <<>>
    /\ rem = <<>>
    /\ concater = FALSE
    /\ lens = <<>>
    /\ CONCAT_LEN = 0
    /\ LEN = <<>>
    /\ esize = 0
    /\ ctx = ""
    /\ evals = <<>>
    /\ this = <<>>
    /\ out = <<>>
    /\ dropped = {}
    /\ err = ""

\* concat_arrays::<From_, T, CONCAT_LEN>(this, TypeParam::NEW)
CallDirect ==
    /\ pc = "caller"
    /\ \E k \in 0..MaxArgs, s \in TypeSizes, c \in 0..MaxConcatLen :
         \E ns \in [1..k -> Lens] :
            /\ lens' = ns
            /\ esize' = s
            /\ CONCAT_LEN' = c
            /\ this' = Layout(FieldsOfLens(ns), s)
    /\ pc' = "constructed"
    /\ ctx' \in {"const", "runtime"}
    /\ UNCHANGED <<inv, front, LEN, evals, out, dropped, err>>

NextDirect == CallDirect \/ AssertSize \/ Transmute

SpecDirect == InitDirect /\ [][NextDirect]_vars

\* ------------------------------------------------------------------------
\* Properties
\* ------------------------------------------------------------------------
Evaluated == {"constructed", "asserted", "panicked", "done"}
Resolved == {"resolved", "checked"} \cup Evaluated

\* The number of elements of the arguments before argument i.
RECURSIVE Offset(_, _)
Offset(args, i) ==
    IF i <= 1 THEN 0 ELSE Offset(args, i - 1) + args[i - 1].n

\* C1: the output is the concatenation of the arguments in argument order:
\* element j of argument i is at index (sum of the lengths of the arguments
\* before i) + j, and the output has no other slot.
C1_ConcatenationInOrder ==
    pc = "done" =>
        /\ Len(out) = Offset(inv.args, Len(inv.args) + 1)
        /\ \A i \in 1..Len(inv.args) : \A j \in 1..inv.args[i].n :
              out[Offset(inv.args, i) + j] = ArrayValue(inv.args[i])[j]

C1_Witness ==
    /\ pc = "done" /\ Len(inv.args) = 2
    /\ inv.args[1].n = 2 /\ inv.args[2].n = 2 /\ inv.args[2].kind = "ident"
    /\ out = <<<<1, 1>>, <<1, 2>>, <<2, 1>>, <<2, 2>>>>

\* The sum of a list of lengths, taken from the last one.
RECURSIVE Total(_)
Total(ls) ==
    IF ls = <<>> THEN 0
    ELSE Total(SubSeq(ls, 1, Len(ls) - 1)) + ls[Len(ls)]

\* C2: CONCAT_LEN is the sum of the resolved per-argument lengths, and it
\* is the length of the output array.
C2_OutputLength ==
    /\ pc \in Resolved => CONCAT_LEN = Total(lens)
    /\ pc = "done" => Len(out) = CONCAT_LEN

C2_Witness ==
    /\ pc = "done" /\ Len(lens) = 2 /\ lens[1] = 1 /\ lens[2] = 2
    /\ CONCAT_LEN = 3 /\ Len(out) = 3

\* The objects of the arguments of the invocation.
Objects ==
    UNION { { ArrayValue(inv.args[i])[j] : j \in 1..inv.args[i].n } :
            i \in 1..Len(inv.args) }

\* C3: every element of every argument is in exactly one slot of the
\* output, every slot holds one of them, and none was dropped through the
\* source aggregate.
C3_OwnershipOnce ==
    pc = "done" =>
        /\ \A e \in Objects : Cardinality({ k \in 1..Len(out) : out[k] = e }) = 1
        /\ \A k \in 1..Len(out) : out[k] \in Objects
        /\ dropped = {}

C3_Witness ==
    /\ pc = "done" /\ Len(out) >= 3 /\ esize >= 2 /\ Len(inv.args) = 2
    /\ dropped = {}

\* C5: one argument, of any kind, is returned unchanged.
C5_SingleArgument ==
    (pc = "done" /\ Len(inv.args) = 1) => out = ArrayValue(inv.args[1])

C5_Witness ==
    /\ pc = "done" /\ Len(inv.args) = 1
    /\ inv.args[1].kind = "path" /\ inv.args[1].n = 2
    /\ out = <<<<1, 1>>, <<1, 2>>>>
NoDirective(v) == [v EXCEPT !.length_type = FALSE]

\* C6: with `length_type = L;`, L::LEN is the sum of the argument lengths
\* and the length of the returned array, which is the array the invocation
\* returns without the directive.
C6_LengthType ==
    inv.length_type =>
        /\ pc \in ({"checked"} \cup Evaluated) =>
              LEN = <<Offset(inv.args, Len(inv.args) + 1)>>
        /\ pc = "done" =>
              /\ LEN = <<Len(out)>>
              /\ Accepted(NoDirective(inv))
              /\ out = OutputOf(NoDirective(inv), esize)

C6_Witness ==
    /\ pc = "done" /\ inv.length_type /\ Len(inv.args) = 2
    /\ inv.args[1].n = 1 /\ inv.args[2].n = 2
    /\ LEN = <<3>> /\ Len(out) = 3

\* An annotation that declares a length the expression does not have.
Mismatched(a) == a.ann \in {"explicit", "opaque"} /\ a.decl # a.n
HasMismatch == \E i \in 1..Len(inv.args) : Mismatched(inv.args[i])

\* C7 as stated: the transmute follows a passed size check, the check is
\* made at compile time, and a declared length that differs from the
\* actual one ends in the failure of that assertion.
C7_StaticAssertion ==
    /\ (pc = "done" /\ concater) => SizeAssertion(this, esize, CONCAT_LEN)
    /\ (pc \in {"asserted", "panicked"}) => ctx = "const"
    /\ (HasMismatch /\ pc \in {"rejected", "panicked", "done"}) =>
          (pc = "panicked" /\ ctx = "const")

\* C7 as amended: the transmute follows a passed size check (made when
\* concat_arrays is evaluated); a declared length that differs from the
\* actual one is rejected by the type check of the aggregate, before
\* anything is evaluated, and yields no output array.
C7_MismatchRejected ==
    /\ (pc = "done" /\ concater) => SizeAssertion(this, esize, CONCAT_LEN)
    /\ HasMismatch =>
          /\ pc \notin ({"checked"} \cup Evaluated)
          /\ out = <<>>
          /\ pc = "rejected" => err = "length_mismatch"

C7_Witness ==
    /\ pc = "rejected" /\ err = "length_mismatch" /\ out = <<>>
    /\ \E i \in 1..Len(inv.args) :
          Mismatched(inv.args[i]) /\ inv.args[i].kind = "ident"

\* C8: an invocation that fails is rejected before anything is evaluated,
\* for one of the three reasons; an accepted one never fails its size
\* assertion.
C8_CompileTimeOnly ==
    /\ pc = "rejected" =>
          /\ ctx = "" /\ this = <<>> /\ out = <<>>
          /\ err \in {"unresolved_length", "length_mismatch", "elem_mismatch"}
          /\ ~Accepted(inv)
    /\ pc \in {"panicked", "done"} => Accepted(inv)
    /\ pc # "panicked"

C8_Witness ==
    /\ pc = "done" /\ ctx = "runtime" /\ Len(inv.args) = 2 /\ Len(out) = 4
    /\ SizeAssertion(this, esize, CONCAT_LEN)

\* C9: the resolved length of an array literal is its own element count or
\* repeat count, whatever the annotation and with or without a trailing
\* comma, and resolving it evaluates no element expression.
C9_LiteralLength ==
    pc \in Resolved =>
        \A i \in 1..Len(prev) :
            Literal(prev[i].expr) =>
                /\ lens[i] = prev[i].expr.n
                /\ pc \in {"resolved", "checked"} => evals[i] = 0

C9_Witness ==
    /\ pc = "resolved"
    /\ \E i \in 1..Len(prev) :
          /\ prev[i].expr.kind = "list" /\ prev[i].expr.tc
          /\ prev[i].expr.ann = "explicit" /\ prev[i].expr.decl = 1
          /\ prev[i].expr.n = 2 /\ lens[i] = 2 /\ evals[i] = 0

WithEmpty(v) == [v EXCEPT !.args = Append(@, ListLiteral(Len(@) + 1, 0))]
\* The invocation with its trailing comma added, or taken away.
OtherComma(v) == [v EXCEPT !.trailing = ~@]

\* C10: `[]` as one more argument, or a trailing comma, changes neither
\* whether the invocation is accepted nor the array it returns.
C10_EmptyAndTrailing ==
    (Len(inv.args) >= 1 /\ pc \in {"done", "rejected"}) =>
        /\ Accepted(WithEmpty(inv)) = (pc = "done")
        /\ Accepted(OtherComma(inv)) = (pc = "done")
        /\ pc = "done" =>
              /\ out = OutputOf(WithEmpty(inv), esize)
              /\ out = OutputOf(OtherComma(inv), esize)

C10_Witness ==
    /\ pc = "done" /\ ~inv.trailing /\ Len(inv.args) = 2
    /\ inv.args[2].kind = "ident" /\ inv.args[2].ann = "opaque"
    /\ inv.args[2].n = 2 /\ Len(out) >= 3
    /\ out = OutputOf(WithEmpty(inv), esize)

\* The annotation forms of an argument.
Forms == {"none", "explicit", "infer", "opaque"}

\* The invocation with argument i annotated in the form f; a form that
\* states a length states the length of the argument's array value.
WithForm(v, i, f) ==
    [v EXCEPT !.args[i].ann = f,
              !.args[i].decl = IF f \in {"explicit", "opaque"}
                               THEN v.args[i].n ELSE 0]

\* The invocation with argument i put in parentheses.
WithParens(v, i) == [v EXCEPT !.args[i] = Parenthesized(@)]

PathArg(a) == a.kind \in {"ident", "path"}

\* An argument next to which every other argument is a plain list literal.
Focus(v) ==
    CHOOSE i \in 1..Len(v.args) :
        \A j \in 1..Len(v.args) :
            j # i => v.args[j] = ListLiteral(j, v.args[j].n)

\* C11: the output for an argument does not depend on the accepted
\* annotation form that accompanies it (none, [T; N], [T; _] or an opaque
\* array type all yield the array the invocation returned), and a path
\* argument P is accepted exactly when (P) is and yields the same output.
\* It holds in every state of every expansion.
C11_FormIndependent ==
    []((Len(inv.args) >= 1 /\ pc \in {"done", "rejected"}) =>
        LET i == Focus(inv) IN
        /\ pc = "done" =>
              \A f \in Forms \ {inv.args[i].ann} :
                  Accepted(WithForm(inv, i, f)) =>
                      OutputOf(WithForm(inv, i, f), esize) = out
        /\ PathArg(inv.args[i]) =>
              /\ Accepted(WithParens(inv, i)) = (pc = "done")
              /\ pc = "done" => OutputOf(WithParens(inv, i), esize) = out)

C11_Witness ==
    /\ pc = "done" /\ Len(inv.args) = 2 /\ Len(out) = 3
    /\ \E i \in 1..2 :
          /\ inv.args[i].kind = "path" /\ inv.args[i].ann = "explicit"
          /\ inv.args[i].n = 2 /\ ~inv.args[i].cst
          /\ \A f \in {"explicit", "opaque"} :
                /\ Accepted(WithForm(inv, i, f))
                /\ OutputOf(WithForm(inv, i, f), esize) = out
          /\ ~Accepted(WithForm(inv, i, "none"))
          /\ OutputOf(WithParens(inv, i), esize) = out

\* The claim of C12 as stated: whenever the lengths of the fields do not sum
\* to CONCAT_LEN, the assertion fails and nothing is reinterpreted.
C12_CatchesAnyMismatch ==
    (pc \in {"asserted", "panicked", "done"}
     /\ SumLens(lens) # CONCAT_LEN) =>
        /\ pc = "panicked"
        /\ out = <<>>

\* C12: the assertion compares byte sizes.  For an element type of
\* nonzero size it fails exactly when the lengths of the fields do not sum
\* to CONCAT_LEN, and then nothing is reinterpreted; for a zero-sized
\* element type it passes whatever the lengths are, and the
\* reinterpretation yields CONCAT_LEN elements.
C12_SizeAssertion ==
    /\ pc \in {"asserted", "panicked", "done"} =>
          /\ (pc = "panicked") = (esize * SumLens(lens) # esize * CONCAT_LEN)
          /\ esize >= 1 => (pc = "panicked") = (SumLens(lens) # CONCAT_LEN)
          /\ esize = 0 => pc # "panicked"
    /\ pc = "panicked" => out = <<>>
    /\ pc = "done" => Len(out) = CONCAT_LEN

C12_Witness ==
    /\ pc = "panicked" /\ esize = 2 /\ Len(lens) = 2
    /\ SumLens(lens) = 3 /\ CONCAT_LEN = 4 /\ Len(this) = 6 /\ out = <<>>

\* The states of an invocation that passed the type check.
PassedTypeCheck == {"checked"} \cup Evaluated

\* C13: for every non-literal argument of an accepted invocation the
\* resolved length is the element count of the argument's array value, on
\* each resolution path: the N of `[T; N]`, the length the Usize probe
\* unifies for `[T; _]` or no annotation, ArrayLength::LENGTH of an opaque
\* annotated type.
C13_ResolvedIsActual ==
    pc \in PassedTypeCheck =>
        \A i \in 1..Len(prev) :
            ~Literal(prev[i].expr) =>
                /\ prev[i].len.macro = "__length_or_infer"
                /\ lens[i] = prev[i].expr.n
                /\ Len(ArrayValue(prev[i].expr)) = lens[i]
                /\ prev[i].len.arg \in {"const N", "type"} =>
                      lens[i] = prev[i].expr.decl
                /\ prev[i].len.arg \in {"", "const _"} => prev[i].expr.cst
                /\ prev[i].len.arg = (CASE prev[i].expr.ann = "none" -> ""
                                        [] prev[i].expr.ann = "infer" -> "const _"
                                        [] prev[i].expr.ann = "explicit" -> "const N"
                                        [] OTHER -> "type")

C13_Witness ==
    /\ pc = "done" /\ Len(prev) = 2 /\ Len(out) = 4
    /\ inv.args[1].kind = "path" /\ prev[1].len.arg = "type"
    /\ ~prev[1].expr.cst /\ prev[1].expr.decl = 2 /\ lens = <<2, 2>>

\* How many times argument i was evaluated, given the record of evaluations.
EvalsOf(ev, i) == IF i \in DOMAIN ev THEN ev[i] ELSE 0

\* C14: the length probe is never executed.  While the lengths are resolved
\* and the aggregate is type-checked no argument expression has been
\* evaluated; an argument expression is only ever evaluated by the step
\* that constructs the aggregate, and from then on each one has been
\* evaluated exactly once.
C14_ProbeNeverRuns ==
    /\ [](pc \in {"resolved", "checked"} =>
             /\ Len(evals) = Len(prev)
             /\ \A i \in 1..Len(prev) : evals[i] = 0)
    /\ [](pc \in Evaluated =>
             /\ Len(evals) = Len(prev)
             /\ \A i \in 1..Len(prev) : evals[i] = 1)
    /\ [][\A i \in DOMAIN evals' :
              EvalsOf(evals', i) > EvalsOf(evals, i) =>
                  /\ pc = "checked" /\ pc' = "constructed"
                  /\ this' = Layout(Fields(prev), esize)]_vars

C14_Witness ==
    /\ pc = "done" /\ Len(prev) = 2 /\ evals = <<1, 1>>
    /\ IsProbe(prev[2]) /\ prev[2].len.arg = "const _"
    /\ inv.args[2].kind = "ident" /\ prev[2].expr.n = 2
====
